---- MODULE Spec2Model ----
(***************************************************************************)
(* A model of the call conversation state machine of the AI voice agent:   *)
(* the in-memory CallManager (services/call_manager.py), the calls table   *)
(* (database.py), the Groq gateway and the transfer classifier             *)
(* (services/agent.py), the business-hours check (services/hours.py), the  *)
(* five Twilio webhook handlers (routes/voice.py) and the configuration    *)
(* update of the dashboard (routes/api.py).                                *)
(*                                                                         *)
(* The handlers are asyncio coroutines: a handler runs without             *)
(* interruption up to an await that really suspends (the Groq call, a      *)
(* database statement), and other handlers run while it is suspended.      *)
(* Each action below is one such uninterrupted segment; a database         *)
(* statement takes effect in the step that resumes the handler, with the   *)
(* arguments the handler evaluated before it was suspended.                *)
(*                                                                         *)
(* A text is a sequence of tokens, and the string it stands for is the     *)
(* tokens written one after the other.  A token is a transfer marker, one  *)
(* whitespace character, a newline, or a word or phrase without            *)
(* whitespace at its ends.                                                 *)
(***************************************************************************)
EXTENDS Integers, Sequences, FiniteSets, TLC

VARIABLES
    conversations,   \* CallManager._conversations: call_sid -> list of turns
    db,              \* the calls table: call_sid -> row
    settings,        \* config.settings, as the handlers read it
    updates,         \* history: the config updates applied so far
    now,             \* datetime.now(timezone.utc), in ticks
    reqs,            \* the webhook requests in flight (one slot per coroutine)
    last_response,   \* the last response returned, and the call it was for
    drain,           \* history: the end_call invocations for each call id
    writes,          \* history: non-empty transcripts written, per call
    menu_replays,    \* history: digit menus re-presented by handle_transfer
    overlaps,        \* history: speech steps taken while another was suspended
    flow,            \* history: how far each call has followed the plain flow
    line,            \* the provider's side of each call: the webhooks it may post next
    arg,             \* the input of the function under check (function specs)
    result           \* its result

vars == <<conversations, db, settings, updates, now, reqs, last_response, drain, writes,
          menu_replays, overlaps, flow, line, arg, result>>

----------------------------------------------------------------------------
(* Bounds of the model *)

\* the webhook coroutines that can be in flight at once
MaxInFlight == 2
\* the longest conversation a speech step is still accepted for
MaxTurns == 4
\* the last tick of the clock
MaxTime == 1
\* the replays of the menu followed per call (the handler keeps no count)
MaxReplays == 2
\* the config updates applied in one run
MaxUpdates == 1
\* the speech steps of a call taken while another is suspended (the route
\* keeps no count)
MaxOverlaps == 2

CallSids == {"CA1"}
Slots == 1..MaxInFlight

None == "None"
\* config.py declares no support_phone_number: reading it raises AttributeError
ABSENT == "AttributeError"

----------------------------------------------------------------------------
(* Texts *)

TRANSFER_SALES_PREFIX == "[TRANSFER_SALES]"
TRANSFER_SUPPORT_PREFIX == "[TRANSFER_SUPPORT]"
WS == " "
NL == "\n"

IsSpace(tok) == tok \in {WS, NL}

\* str.startswith(marker), the marker being one token
startswith(text, marker) == Len(text) >= 1 /\ text[1] = marker

\* str.removeprefix(marker)
removeprefix(text, marker) == IF startswith(text, marker) THEN Tail(text) ELSE text

RECURSIVE lstrip(_)
lstrip(text) ==
    IF Len(text) >= 1 /\ IsSpace(text[1]) THEN lstrip(Tail(text)) ELSE text

RECURSIVE rstrip(_)
rstrip(text) ==
    IF Len(text) >= 1 /\ IsSpace(text[Len(text)])
    THEN rstrip(SubSeq(text, 1, Len(text) - 1))
    ELSE text

\* str.strip()
strip(text) == rstrip(lstrip(text))

\* The two patterns are searched in the string the tokens make when written
\* one after the other, without regard to case (re.IGNORECASE), and "\b" stands
\* before the phrase a match starts with and after the keyword it ends with.

\* the token in lower case
lower(tok) ==
    CASE tok = "Let me transfer" -> "let me transfer"
      [] OTHER -> tok

\* the tokens whose first character is not of \w
NonWordFirst == {WS, NL, TRANSFER_SALES_PREFIX, TRANSFER_SUPPORT_PREFIX}

\* the tokens whose last character is not of \w
NonWordLast ==
    {WS, NL, TRANSFER_SALES_PREFIX, TRANSFER_SUPPORT_PREFIX,
     "Sure thing!", "Let's get you help.", "We are open nine to five.",
     "I apologize, but I'm having a little trouble right now.", "a team member?",
     "issue at the moment.", "a team member, or you can call back in a few minutes."}

\* "\b" fails before token i: the token before it ends with a character of \w
WordBefore(text, i) == i > 1 /\ text[i - 1] \notin NonWordLast

\* "\b" fails after token j: the token after it starts with a character of \w
WordAfter(text, j) == j < Len(text) /\ text[j + 1] \notin NonWordFirst

\* the keywords a token holds followed by a character not of \w: the SALES and
\* SUPPORT of the two markers, each before its "]"
KeywordsInside(tok) ==
    CASE tok = TRANSFER_SALES_PREFIX -> {"sales"}
      [] tok = TRANSFER_SUPPORT_PREFIX -> {"support"}
      [] OTHER -> {}

\* "\b(a.*b)\b" for one alternative: phrase a at a word boundary, and later on
\* the same line keyword b, ending at a word boundary, wherever it starts
FollowedBy(text, firsts, lasts) ==
    \E i \in 1..Len(text) : \E j \in (i + 1)..Len(text) :
        /\ lower(text[i]) \in firsts
        /\ ~WordBefore(text, i)
        /\ \/ KeywordsInside(text[j]) \cap lasts # {}
           \/ lower(text[j]) \in lasts /\ ~WordAfter(text, j)
        /\ \A k \in i..j : text[k] # NL

\* "\b(a)\b": the phrase with a word boundary on both sides
Alone(text, phrases) ==
    \E i \in 1..Len(text) :
        lower(text[i]) \in phrases /\ ~WordBefore(text, i) /\ ~WordAfter(text, i)

ConnectYouWith == {"connect you with"}
LetMe == {"let me transfer", "let me connect", "let me put you through"}

\* a sales pattern that takes "connect you with" alone for a transfer
SALES_KEYWORDS_any_connect(text) ==
    Alone(text, {"transfer you"} \cup ConnectYouWith)

\* SALES_KEYWORDS.search(response)
SALES_KEYWORDS(text) ==
    \/ Alone(text, {"transfer you"})
    \/ FollowedBy(text, ConnectYouWith, {"sales", "representative", "agent", "pricing"})
    \/ FollowedBy(text, LetMe, {"sales", "pricing"})

\* SUPPORT_KEYWORDS.search(response)
SUPPORT_KEYWORDS(text) ==
    \/ FollowedBy(text, ConnectYouWith, {"support", "technician", "technical", "tech team"})
    \/ FollowedBy(text, LetMe, {"support", "technical", "tech team"})

\* the classifier with the sales fallback pattern tried before the support one
detect_transfer_sales_first(response) ==
    IF startswith(response, TRANSFER_SALES_PREFIX) THEN "sales"
    ELSE IF startswith(response, TRANSFER_SUPPORT_PREFIX) THEN "support"
    ELSE IF SALES_KEYWORDS(response) THEN "sales"
    ELSE IF SUPPORT_KEYWORDS(response) THEN "support"
    ELSE None

detect_transfer(response) ==
    IF startswith(response, TRANSFER_SALES_PREFIX) THEN "sales"
    ELSE IF startswith(response, TRANSFER_SUPPORT_PREFIX) THEN "support"
    ELSE IF SUPPORT_KEYWORDS(response) THEN "support"
    ELSE IF SALES_KEYWORDS(response) THEN "sales"
    ELSE None

\* the stripping without the two removeprefix calls
strip_transfer_prefix_keeps_marker(response) == strip(response)

strip_transfer_prefix(response) ==
    strip(removeprefix(removeprefix(response, TRANSFER_SALES_PREFIX),
                       TRANSFER_SUPPORT_PREFIX))

----------------------------------------------------------------------------
(* The Groq gateway *)

TIMEOUT_FALLBACK ==
    <<"I apologize, but I'm having a little trouble right now.", WS,
      "Could you please repeat that, or I can", WS, "connect you with", WS,
      "a team member?">>

ERROR_FALLBACK ==
    <<"I'm sorry, I'm experiencing a", WS, "technical", WS, "issue at the moment.", WS,
      "Please hold while I", WS, "connect you with", WS,
      "a team member, or you can call back in a few minutes.">>

\* what awaiting the provider call can end in
Reply(content) == [kind |-> "reply", content |-> content]
NoContent == [kind |-> "reply_none", content |-> <<>>]
TimedOut == [kind |-> "timeout", content |-> <<>>]
ProviderError == [kind |-> "error", content |-> <<>>]

Returned(value) == [raised |-> FALSE, value |-> value]
Raised(exc) == [raised |-> TRUE, value |-> <<exc>>]

\* the try block: wait_for(...) and response.choices[0].message.content.strip()
TryCompletion(outcome) ==
    CASE outcome.kind = "reply" -> Returned(strip(outcome.content))
      [] outcome.kind = "reply_none" -> Raised("AttributeError")
      [] outcome.kind = "timeout" -> Raised("TimeoutError")
      [] OTHER -> Raised("APIError")

\* the gateway with only the "except asyncio.TimeoutError" clause
get_ai_response_timeout_only(outcome) ==
    LET r == TryCompletion(outcome) IN
    IF r.raised /\ r.value = <<"TimeoutError">> THEN Returned(TIMEOUT_FALLBACK) ELSE r

get_ai_response(outcome) ==
    LET r == TryCompletion(outcome) IN
    IF ~r.raised THEN r
    ELSE IF r.value = <<"TimeoutError">> THEN Returned(TIMEOUT_FALLBACK)
    ELSE Returned(ERROR_FALLBACK)

----------------------------------------------------------------------------
(* CallManager: the in-memory conversation store *)

\* one entry of a conversation; the timestamp add_turn stamps on it is read by
\* no handler and is left out
Turn(role, content) == [role |-> role, content |-> content]

start_call(convs, call_sid) ==
    [s \in DOMAIN convs \cup {call_sid} |-> IF s = call_sid THEN <<>> ELSE convs[s]]

\* a store that puts a new turn in front of the earlier ones
add_turn_prepends(convs, call_sid, role, content) ==
    [s \in DOMAIN convs \cup {call_sid} |->
        IF s = call_sid
        THEN <<Turn(role, content)>> \o (IF s \in DOMAIN convs THEN convs[s] ELSE <<>>)
        ELSE convs[s]]

\* a store that keeps only the last turn of a call
add_turn_replaces(convs, call_sid, role, content) ==
    [s \in DOMAIN convs \cup {call_sid} |->
        IF s = call_sid THEN <<Turn(role, content)>> ELSE convs[s]]

add_turn(convs, call_sid, role, content) ==
    LET started == IF call_sid \notin DOMAIN convs THEN start_call(convs, call_sid)
                   ELSE convs
    IN [started EXCEPT ![call_sid] = Append(@, Turn(role, content))]

get_history(convs, call_sid) ==
    IF call_sid \in DOMAIN convs THEN convs[call_sid] ELSE <<>>

get_openai_messages(convs, call_sid) ==
    LET history == get_history(convs, call_sid) IN
    [i \in 1..Len(history) |->
        IF history[i].role = "caller"
        THEN [role |-> "user", content |-> history[i].content]
        ELSE [role |-> "assistant", content |-> history[i].content]]

\* dict.pop(call_sid, []): the transcript returned and the store afterwards
end_call(convs, call_sid) ==
    [transcript |-> IF call_sid \in DOMAIN convs THEN convs[call_sid] ELSE <<>>,
     conversations |-> [s \in DOMAIN convs \ {call_sid} |-> convs[s]]]

get_active_call_sids(convs) == DOMAIN convs

----------------------------------------------------------------------------
(* The calls table *)

ACTIVE == "active"
COMPLETED == "completed"
VOICEMAIL == "voicemail"
TRANSFERRED == "transferred"

\* a nullable timestamp: <<>> is NULL, <<t>> is the time t
NoTime == <<>>
At(t) == <<t>>

CallRecord(from_number, to_number, started_at) ==
    [from_number |-> from_number, to_number |-> to_number, status |-> ACTIVE,
     started_at |-> started_at, ended_at |-> NoTime, transcript |-> <<>>,
     voicemail_url |-> None, transferred_to |-> None]

\* INSERT ... ON CONFLICT (call_sid) DO NOTHING: the row of an earlier event stays
save_call_keeps_existing(rows, call_sid, record) ==
    [s \in DOMAIN rows \cup {call_sid} |-> IF s \in DOMAIN rows THEN rows[s] ELSE record]

\* INSERT ... ON CONFLICT (call_sid) DO UPDATE SET every column
save_call(rows, call_sid, record) ==
    [s \in DOMAIN rows \cup {call_sid} |-> IF s = call_sid THEN record ELSE rows[s]]

\* UPDATE calls SET status [, ended_at] WHERE call_sid: no row, no change
update_call_status(rows, call_sid, status, ended_at) ==
    IF call_sid \notin DOMAIN rows THEN rows
    ELSE IF ended_at # NoTime
    THEN [rows EXCEPT ![call_sid].status = status, ![call_sid].ended_at = ended_at]
    ELSE [rows EXCEPT ![call_sid].status = status]

update_call_transcript(rows, call_sid, transcript) ==
    IF call_sid \notin DOMAIN rows THEN rows
    ELSE [rows EXCEPT ![call_sid].transcript = transcript]

update_call_transferred_to(rows, call_sid, transferred_to) ==
    IF call_sid \notin DOMAIN rows THEN rows
    ELSE [rows EXCEPT ![call_sid].transferred_to = transferred_to]

\* the statement without "status = $2"
update_call_voicemail_url_only(rows, call_sid, voicemail_url) ==
    IF call_sid \notin DOMAIN rows THEN rows
    ELSE [rows EXCEPT ![call_sid].voicemail_url = voicemail_url]

update_call_voicemail(rows, call_sid, voicemail_url) ==
    IF call_sid \notin DOMAIN rows THEN rows
    ELSE [rows EXCEPT ![call_sid].voicemail_url = voicemail_url,
                      ![call_sid].status = VOICEMAIL]

\* a WHERE clause that also selects the rows exactly max_age_minutes old
StaleCalls_at_threshold(rows, max_age_minutes, t) ==
    {s \in DOMAIN rows : rows[s].status = ACTIVE /\ rows[s].started_at <= t - max_age_minutes}

\* the rows the sweep's WHERE clause selects
StaleCalls(rows, max_age_minutes, t) ==
    {s \in DOMAIN rows : rows[s].status = ACTIVE /\ rows[s].started_at < t - max_age_minutes}

close_stale_calls(rows, max_age_minutes, t) ==
    [rows |-> [s \in DOMAIN rows |->
                  IF s \in StaleCalls(rows, max_age_minutes, t)
                  THEN [rows[s] EXCEPT !.status = COMPLETED, !.ended_at = At(t)]
                  ELSE rows[s]],
     count |-> Cardinality(StaleCalls(rows, max_age_minutes, t))]

----------------------------------------------------------------------------
(* TwiML responses *)

Say(text) == [verb |-> "Say", action |-> "", text |-> text]
Record == [verb |-> "Record", action |-> "/voice/voicemail", text |-> <<>>]
GatherSpeech(text) == [verb |-> "Gather speech", action |-> "/voice/respond", text |-> text]
GatherDigit(text) == [verb |-> "Gather digit", action |-> "/voice/transfer", text |-> text]
Redirect == [verb |-> "Redirect", action |-> "/voice/incoming", text |-> <<>>]
Dial(number) == [verb |-> "Dial", action |-> number, text |-> <<>>]
Hangup == [verb |-> "Hangup", action |-> "", text |-> <<>>]

Ok(body) == [status |-> 200, body |-> body]
NoResponse == [status |-> 0, body |-> <<>>]

\* handle_status_callback's "<Response/>"
Acknowledgment == Ok(<<>>)

\* a process without the exception handler answering with no markup at all
no_fallback_handler == [status |-> 0, body |-> <<>>]

\* main.py's exception handler: what the transport gets when a handler raises
fallback_handler ==
    [status |-> 500,
     body |-> <<Say(<<"We are experiencing technical difficulties. Please try your call again in a few minutes. Goodbye.">>),
                Hangup>>]

GREETING == <<"Hello! Thank you for calling. How can I help you today?">>
PLACEHOLDER_NUMBER == "+1234567890"

\* get_closed_message(): the configured window and timezone inside fixed text
get_closed_message(cfg) ==
    <<"Thank you for calling. Our office is currently closed. Our business hours are",
      cfg.business_hours_start, "to", cfg.business_hours_end,
      "Monday through Friday", cfg.business_timezone, "time.",
      "Please leave a message after the tone and we'll return your call on the next business day.">>

ClosedResponse(cfg) ==
    Ok(<<Say(get_closed_message(cfg)), Record,
         Say(<<"We did not receive a recording. Goodbye.">>)>>)

GreetingResponse ==
    Ok(<<GatherSpeech(GREETING), Say(<<"I didn't catch that. Let me try again.">>),
         Redirect>>)

ReplyResponse(ai_text) ==
    Ok(<<GatherSpeech(ai_text),
         Say(<<"It seems like you may have stepped away. Thank you for calling. Goodbye!">>)>>)

VoicemailResponse ==
    Ok(<<Say(<<"Thank you for your message. We'll get back to you as soon as possible. Goodbye!">>),
         Hangup>>)

\* _build_transfer_twiml: the response, or the exception reading the settings raises
build_transfer_twiml(cfg, department, transition_message) ==
    IF cfg.support_phone_number = ABSENT THEN Raised("AttributeError")
    ELSE
    LET sales_num == cfg.sales_phone_number
        support_num == cfg.support_phone_number
        has_sales == sales_num # "" /\ sales_num # PLACEHOLDER_NUMBER
        has_support == support_num # ""
        default_num == IF department = "sales" THEN sales_num ELSE support_num
        default_name == IF department = "sales" THEN "Braydon" ELSE "Phong"
    IN Returned(
        <<Say(transition_message)>> \o
        (IF has_sales /\ has_support
         THEN <<GatherDigit(<<"Press 1 for Braydon in Sales. Press 2 for Phong in Support.">>),
                Say(<<"No selection received. Connecting you to", default_name>>),
                Dial(default_num)>>
         ELSE IF has_sales THEN <<Dial(sales_num)>>
         ELSE IF has_support THEN <<Dial(support_num)>>
         ELSE <<Say(<<"I'm sorry, we don't have a transfer number configured at the moment. Please try calling back later. Goodbye.">>),
                Hangup>>))

\* the else branch of handle_transfer: the menu again, then the dial to sales
ReplayMenu(sales_num) ==
    <<GatherDigit(<<"Sorry, that wasn't a valid option. Press 1 for Braydon in Sales. Press 2 for Phong in Support.">>),
      Say(<<"Connecting you to Braydon.">>), Dial(sales_num)>>

HasMenu(response) ==
    \E i \in 1..Len(response.body) : response.body[i].verb = "Gather digit"

----------------------------------------------------------------------------
(* Business hours *)

\* a local wall-clock time; weekday 0 is Monday, as datetime.weekday() counts
LocalTime(weekday, hour, minute, second, microsecond) ==
    [weekday |-> weekday, hour |-> hour, minute |-> minute, second |-> second,
     microsecond |-> microsecond]

\* "HH:MM".split(":") mapped to int, for the windows the model configures
ParseHHMM(hhmm) ==
    CASE hhmm = "08:30" -> [hour |-> 8, minute |-> 30]
      [] hhmm = "09:00" -> [hour |-> 9, minute |-> 0]
      [] hhmm = "17:00" -> [hour |-> 17, minute |-> 0]
      [] hhmm = "17:30" -> [hour |-> 17, minute |-> 30]

\* a datetime of one day, and the order two of them are compared in
TimeOfDay(hour, minute, second, microsecond) == <<hour, minute, second, microsecond>>

NotAfter(a, b) ==
    \/ a[1] < b[1]
    \/ a[1] = b[1] /\ a[2] < b[2]
    \/ a[1] = b[1] /\ a[2] = b[2] /\ a[3] < b[3]
    \/ a[1] = b[1] /\ a[2] = b[2] /\ a[3] = b[3] /\ a[4] <= b[4]

is_business_hours(cfg, t) ==
    IF t.weekday >= 5 THEN FALSE
    ELSE LET start == ParseHHMM(cfg.business_hours_start)
             end == ParseHHMM(cfg.business_hours_end)
             \* now.replace(hour, minute, second=0, microsecond=0)
             start_time == TimeOfDay(start.hour, start.minute, 0, 0)
             end_time == TimeOfDay(end.hour, end.minute, 0, 0)
             this_time == TimeOfDay(t.hour, t.minute, t.second, t.microsecond)
         IN NotAfter(start_time, this_time) /\ NotAfter(this_time, end_time)

----------------------------------------------------------------------------
(* The inputs of the model *)

FROM_NUMBER == "+15550100"
TO_NUMBER == "+15550199"
SALES_NUMBER == "+15550001"
SUPPORT_NUMBER == "+15550002"

\* sales_phone_number and support_phone_number as a deployment can have them
SalesNumbers == {"", PLACEHOLDER_NUMBER, SALES_NUMBER}
SupportNumbers == {ABSENT, "", SUPPORT_NUMBER}

Settings(sales, support) ==
    [sales_phone_number |-> sales, support_phone_number |-> support,
     business_hours_start |-> "09:00", business_hours_end |-> "17:00",
     business_timezone |-> "America/New_York"]

\* a Tuesday noon and a Saturday noon
LocalTimes == {LocalTime(1, 12, 0, 0, 0), LocalTime(5, 12, 0, 0, 0)}

SpeechResults == {<<"I want pricing info">>}

SalesReply == <<WS, TRANSFER_SALES_PREFIX, WS, "Sure thing!">>
SupportReply == <<TRANSFER_SUPPORT_PREFIX, WS, "Let's get you help.">>
PlainReply == <<"We are open nine to five.">>

ProviderOutcomes ==
    {Reply(SalesReply), Reply(SupportReply), Reply(PlainReply), TimedOut, ProviderError}

\* the tuple of handle_status_callback without "busy"
TerminalStatuses_without_busy == {"completed", "no-answer", "failed", "canceled"}

TerminalStatuses == {"completed", "busy", "no-answer", "failed", "canceled"}
\* the statuses the provider reports
ProviderStatuses ==
    {"ringing", "in-progress", "completed", "busy", "no-answer", "failed", "canceled"}

Digits == {"1", "2", "9", ""}
RecordingUrls == {"https://api.twilio.com/RE1"}

\* a row as some earlier call left it
OldRow(status, started_at) ==
    [CallRecord(FROM_NUMBER, TO_NUMBER, started_at) EXCEPT
        !.status = status,
        !.ended_at = IF status = COMPLETED THEN At(started_at) ELSE NoTime]

\* the table when the process starts: the row of a call finished earlier
PreviousCalls == [s \in {"CA0"} |-> OldRow(COMPLETED, 0)]

----------------------------------------------------------------------------
(* Requests in flight *)

\* a coroutine: the handler, the call, the await it is suspended at and the
\* locals it holds over the await; clock is the datetime.now() it has read
IdleReq ==
    [kind |-> "idle", sid |-> "", pc |-> "", messages |-> <<>>, transcript |-> <<>>,
     department |-> None, transition_message |-> <<>>, clock |-> NoTime,
     RecordingUrl |-> "", response |-> NoResponse, max_age_minutes |-> 0]

Suspended(kind, sid, pc) == [IdleReq EXCEPT !.kind = kind, !.sid = sid, !.pc = pc]

InFlight(h, kind, pc) == reqs[h].kind = kind /\ reqs[h].pc = pc

\* the slot a new request takes: the first idle one (the slots are
\* interchangeable)
Free(h) == reqs[h].kind = "idle" /\ \A g \in Slots : g < h => reqs[g].kind # "idle"

----------------------------------------------------------------------------
(* History *)

NoDrain ==
    [n |-> 0, nonempty |-> 0, first_whole |-> TRUE, first_empty |-> TRUE,
     later_empty |-> TRUE]

\* one more end_call for the call id: how many invocations returned turns
\* (counted up to two), whether the first returned all the entry held, whether
\* the later ones returned nothing
Drained(d, held, transcript) ==
    LET nonempty == IF transcript # <<>> /\ d.nonempty < 2
                    THEN d.nonempty + 1 ELSE d.nonempty
    IN IF d.n = 0
       THEN [n |-> 1, nonempty |-> nonempty, first_whole |-> (transcript = held),
             first_empty |-> (transcript = <<>>), later_empty |-> TRUE]
       ELSE [d EXCEPT !.n = 2, !.nonempty = nonempty,
                      !.later_empty = @ /\ (transcript = <<>>)]

Written(n, rows, call_sid, transcript) ==
    IF call_sid \in DOMAIN rows /\ transcript # <<>> /\ n < 2 THEN n + 1 ELSE n

NewFlow == [stage |-> "new", content |-> <<>>]

\* the plain flow of one call: each event in its turn, nothing else in between
Advance(f, event) ==
    LET next == CASE f.stage = "new" /\ event = "save_call" -> "saved"
                  [] f.stage = "saved" /\ event = "greeted" -> "open"
                  [] f.stage = "saved" /\ event = "closed" -> "closed"
                  [] f.stage = "closed" /\ event = "voicemail" -> "closed_voicemail"
                  [] f.stage = "open" /\ event = "speech" -> "speech"
                  [] f.stage = "speech" /\ event = "replied" -> "replied"
                  [] f.stage = "speech" /\ event = "drained" -> "drained"
                  [] f.stage = "drained" /\ event = "transcript" -> "persisted"
                  [] f.stage = "persisted" /\ event = "status" -> "transferred"
                  [] OTHER -> "other"
    IN IF next = "other" THEN [stage |-> "other", content |-> <<>>]
       ELSE [f EXCEPT !.stage = next]

----------------------------------------------------------------------------
(* The provider's side of a call.  Twilio posts /voice/incoming when the call *)
(* arrives and afterwards only the webhooks the last TwiML names: a Gather's  *)
(* or a Record's action, a Redirect.  It waits for the response to one        *)
(* webhook before it posts the next for the same call.  The status callback   *)
(* is the exception: the caller can hang up while a handler is suspended.     *)

NewLine == [webhooks |-> {"/voice/incoming"}, begun |-> FALSE, ended |-> FALSE]

\* the webhooks a response lets the provider post next
Webhooks(response) ==
    IF response.status # 200 THEN {}
    ELSE {response.body[i].action : i \in
             {j \in 1..Len(response.body) :
                 response.body[j].verb \in {"Gather speech", "Gather digit", "Record",
                                            "Redirect"}}}

\* the provider posts a webhook of the call and waits for the response
Posted(l) == [l EXCEPT !.webhooks = {}, !.begun = TRUE]

\* the provider gets the response, unless the call is over
Answered(l, response) == IF l.ended THEN l ELSE [l EXCEPT !.webhooks = Webhooks(response)]

----------------------------------------------------------------------------
(* The initial state: the process has just started *)

Init ==
    /\ conversations = <<>>
    /\ db = PreviousCalls
    /\ \E sales \in SalesNumbers, support \in SupportNumbers :
           settings = Settings(sales, support)
    /\ now = 0
    /\ updates = 0
    /\ reqs = [h \in Slots |-> IdleReq]
    /\ last_response = [sid |-> "", response |-> NoResponse]
    /\ drain = [s \in CallSids |-> NoDrain]
    /\ writes = [s \in CallSids |-> 0]
    /\ menu_replays = [s \in CallSids |-> 0]
    /\ overlaps = [s \in CallSids |-> 0]
    /\ flow = [s \in CallSids |-> NewFlow]
    /\ line = [s \in CallSids |-> NewLine]
    /\ arg = <<>>
    /\ result = <<>>

\* the handler returns: the transport sends the response to the provider
Respond(sid, response) ==
    /\ last_response' = [sid |-> sid, response |-> response]
    /\ line' = [line EXCEPT ![sid] = Answered(@, response)]

\* the provider posts the webhook a suspended handler starts with
Post(sid, webhook) ==
    /\ webhook \in line[sid].webhooks
    /\ line' = [line EXCEPT ![sid] = Posted(@)]

----------------------------------------------------------------------------
(* POST /voice/incoming *)

\* the record is built, with the clock read for started_at, up to
\* "await save_call(record)"
handle_incoming_call_begin(h, sid) ==
    /\ Free(h)
    /\ Post(sid, "/voice/incoming")
    /\ reqs' = [reqs EXCEPT ![h] =
                   [Suspended("incoming", sid, "save_call") EXCEPT !.clock = At(now)]]
    /\ UNCHANGED <<conversations, db, settings, updates, now, last_response, drain, writes,
                   menu_replays, overlaps, flow, arg, result>>

\* the INSERT takes effect; start_call, the business-hours check and the
\* response
handle_incoming_call_resume(h) ==
    /\ InFlight(h, "incoming", "save_call")
    /\ LET sid == reqs[h].sid
           started == start_call(conversations, sid)
       IN /\ db' = save_call(db, sid, CallRecord(FROM_NUMBER, TO_NUMBER, reqs[h].clock[1]))
          /\ \E t \in LocalTimes :
              /\ IF ~is_business_hours(settings, t)
                 THEN /\ conversations' = started
                      /\ Respond(sid, ClosedResponse(settings))
                      /\ flow' = [flow EXCEPT ![sid] =
                                     Advance(Advance(@, "save_call"), "closed")]
                 ELSE /\ conversations' = add_turn(started, sid, "assistant", GREETING)
                      /\ Respond(sid, GreetingResponse)
                      /\ flow' = [flow EXCEPT ![sid] =
                                     Advance(Advance(@, "save_call"), "greeted")]
    /\ reqs' = [reqs EXCEPT ![h] = IdleReq]
    /\ UNCHANGED <<settings, updates, now, drain, writes, menu_replays, overlaps, arg, result>>

----------------------------------------------------------------------------
(* POST /voice/respond *)

\* the caller's turn and the messages handed to get_ai_response
handle_response_begin(h, sid, SpeechResult) ==
    /\ Free(h)
    /\ Post(sid, "/voice/respond")
    /\ Len(get_history(conversations, sid)) < MaxTurns
    /\ conversations' = add_turn(conversations, sid, "caller", SpeechResult)
    /\ reqs' = [reqs EXCEPT ![h] =
                   [Suspended("respond", sid, "get_ai_response") EXCEPT
                       !.messages = get_openai_messages(conversations', sid)]]
    /\ flow' = [flow EXCEPT ![sid] = Advance(@, "speech")]
    /\ UNCHANGED <<db, settings, updates, now, last_response, drain, writes, menu_replays, overlaps,
                   arg, result>>

\* get_ai_response returns: classify, record the assistant's turn and either
\* drain the conversation for the transfer or answer
handle_response_reply(h) ==
    /\ InFlight(h, "respond", "get_ai_response")
    /\ \E outcome \in ProviderOutcomes :
        LET sid == reqs[h].sid
            ai == get_ai_response(outcome)
            ai_text == ai.value
            department == detect_transfer(ai_text)
            transition_message == strip_transfer_prefix(ai_text)
            spoken == add_turn(conversations, sid, "assistant", transition_message)
            ended == end_call(spoken, sid)
        IN IF ai.raised
           THEN /\ Respond(sid, fallback_handler)
                /\ reqs' = [reqs EXCEPT ![h] = IdleReq]
                /\ flow' = [flow EXCEPT ![sid] = Advance(@, "raised")]
                /\ UNCHANGED <<conversations, drain>>
           ELSE IF department # None
           THEN /\ conversations' = ended.conversations
                /\ reqs' = [reqs EXCEPT ![h] =
                               [Suspended("respond", sid, "update_call_transcript") EXCEPT
                                   !.transcript = ended.transcript,
                                   !.department = department,
                                   !.transition_message = transition_message]]
                /\ drain' = [drain EXCEPT ![sid] =
                                Drained(@, get_history(spoken, sid), ended.transcript)]
                /\ flow' = [flow EXCEPT ![sid] =
                               IF Advance(@, "drained").stage = "other"
                               THEN Advance(@, "drained")
                               ELSE [Advance(@, "drained") EXCEPT
                                        !.content = outcome.content]]
                /\ UNCHANGED <<last_response, line>>
           ELSE /\ conversations' = add_turn(conversations, sid, "assistant", ai_text)
                /\ Respond(sid, ReplyResponse(ai_text))
                /\ reqs' = [reqs EXCEPT ![h] = IdleReq]
                /\ UNCHANGED drain
                /\ flow' = [flow EXCEPT ![sid] = Advance(@, "replied")]
    /\ UNCHANGED <<db, settings, updates, now, writes, menu_replays, overlaps, arg, result>>

\* "await update_call_transcript(CallSid, transcript)"
handle_response_transcript(h) ==
    /\ InFlight(h, "respond", "update_call_transcript")
    /\ LET sid == reqs[h].sid IN
        /\ db' = update_call_transcript(db, sid, reqs[h].transcript)
        /\ writes' = [writes EXCEPT ![sid] = Written(@, db, sid, reqs[h].transcript)]
        /\ flow' = [flow EXCEPT ![sid] = Advance(@, "transcript")]
    /\ reqs' = [reqs EXCEPT ![h].pc = "update_call_status"]
    /\ UNCHANGED <<conversations, settings, updates, now, last_response, drain, menu_replays, overlaps,
                   line, arg, result>>

\* "await update_call_status(CallSid, TRANSFERRED)" and the transfer response
handle_response_status(h) ==
    /\ InFlight(h, "respond", "update_call_status")
    /\ LET sid == reqs[h].sid
           twiml == build_transfer_twiml(settings, reqs[h].department,
                                         reqs[h].transition_message)
       IN /\ db' = update_call_status(db, sid, TRANSFERRED, NoTime)
          /\ Respond(sid, IF twiml.raised THEN fallback_handler ELSE Ok(twiml.value))
          /\ flow' = [flow EXCEPT ![sid] = Advance(@, "status")]
    /\ reqs' = [reqs EXCEPT ![h] = IdleReq]
    /\ UNCHANGED <<conversations, settings, updates, now, drain, writes, menu_replays, overlaps, arg, result>>

----------------------------------------------------------------------------
(* POST /voice/status *)

\* a status that ends nothing: the acknowledgment alone
handle_status_callback_other(sid, CallStatus) ==
    /\ line[sid].begun /\ ~line[sid].ended
    /\ CallStatus \notin TerminalStatuses
    /\ last_response' = [sid |-> sid, response |-> Acknowledgment]
    /\ UNCHANGED <<conversations, db, settings, updates, now, reqs, drain, writes, menu_replays, overlaps,
                   flow, line, arg, result>>

\* a terminal status: the drain, up to the first database statement
handle_status_callback_begin(h, sid, CallStatus) ==
    /\ Free(h)
    /\ line[sid].begun /\ ~line[sid].ended
    /\ CallStatus \in TerminalStatuses
    /\ line' = [line EXCEPT ![sid] = [@ EXCEPT !.webhooks = {}, !.ended = TRUE]]
    /\ LET ended == end_call(conversations, sid) IN
        /\ conversations' = ended.conversations
        /\ reqs' = [reqs EXCEPT ![h] =
                       [Suspended("status", sid,
                                  IF ended.transcript # <<>> THEN "update_call_transcript"
                                  ELSE "update_call_status") EXCEPT
                           !.transcript = ended.transcript,
                           \* ended_at is an argument: the clock is read before
                           \* the handler awaits update_call_status
                           !.clock = IF ended.transcript # <<>> THEN NoTime
                                     ELSE At(now)]]
        /\ drain' = [drain EXCEPT ![sid] =
                        Drained(@, get_history(conversations, sid), ended.transcript)]
    /\ flow' = [flow EXCEPT ![sid] = Advance(@, "status_callback")]
    /\ UNCHANGED <<db, settings, updates, now, last_response, writes, menu_replays, overlaps, arg, result>>

\* "await update_call_transcript(CallSid, transcript)"
handle_status_callback_transcript(h) ==
    /\ InFlight(h, "status", "update_call_transcript")
    /\ LET sid == reqs[h].sid IN
        /\ db' = update_call_transcript(db, sid, reqs[h].transcript)
        /\ writes' = [writes EXCEPT ![sid] = Written(@, db, sid, reqs[h].transcript)]
    /\ reqs' = [reqs EXCEPT ![h].pc = "update_call_status", ![h].clock = At(now)]
    /\ UNCHANGED <<conversations, settings, updates, now, last_response, drain, menu_replays, overlaps,
                   flow, line, arg, result>>

\* "await update_call_status(CallSid, COMPLETED, ended_at)" takes effect, with
\* the ended_at read before the await, and the response
handle_status_callback_status(h) ==
    /\ InFlight(h, "status", "update_call_status")
    /\ db' = update_call_status(db, reqs[h].sid, COMPLETED, reqs[h].clock)
    /\ last_response' = [sid |-> reqs[h].sid, response |-> Acknowledgment]
    /\ reqs' = [reqs EXCEPT ![h] = IdleReq]
    /\ UNCHANGED <<conversations, settings, updates, now, drain, writes, menu_replays, overlaps, flow,
                   line, arg, result>>

----------------------------------------------------------------------------
(* POST /voice/voicemail *)

\* up to "await update_call_voicemail(CallSid, RecordingUrl)"
handle_voicemail_begin(h, sid, RecordingUrl) ==
    /\ Free(h)
    /\ Post(sid, "/voice/voicemail")
    /\ reqs' = [reqs EXCEPT ![h] =
                   [Suspended("voicemail", sid, "update_call_voicemail") EXCEPT
                       !.RecordingUrl = RecordingUrl]]
    /\ UNCHANGED <<conversations, db, settings, updates, now, last_response, drain, writes,
                   menu_replays, overlaps, flow, arg, result>>

\* the UPDATE takes effect, and the response
handle_voicemail(h) ==
    /\ InFlight(h, "voicemail", "update_call_voicemail")
    /\ LET sid == reqs[h].sid IN
        /\ db' = update_call_voicemail(db, sid, reqs[h].RecordingUrl)
        /\ Respond(sid, VoicemailResponse)
        /\ flow' = [flow EXCEPT ![sid] = Advance(@, "voicemail")]
    /\ reqs' = [reqs EXCEPT ![h] = IdleReq]
    /\ UNCHANGED <<conversations, settings, updates, now, drain, writes, menu_replays, overlaps,
                   arg, result>>

----------------------------------------------------------------------------
(* POST /voice/transfer *)

\* the response and the department recorded, or the exception reading the
\* settings raises
transfer_choice(cfg, digits) ==
    IF cfg.support_phone_number = ABSENT THEN Raised("AttributeError")
    ELSE
    LET sales_num == cfg.sales_phone_number
        support_num == cfg.support_phone_number
    IN IF digits = "1" /\ sales_num # ""
       THEN Returned([response |-> Ok(<<Say(<<"Connecting you to Braydon now.">>),
                                        Dial(sales_num)>>),
                      transferred_to |-> "sales"])
       ELSE IF digits = "2" /\ support_num # ""
       THEN Returned([response |-> Ok(<<Say(<<"Connecting you to Phong now.">>),
                                        Dial(support_num)>>),
                      transferred_to |-> "support"])
       ELSE Returned([response |-> Ok(ReplayMenu(sales_num)), transferred_to |-> None])

\* whether the handler awaits update_call_transferred_to for these digits
AwaitsTransferredTo(cfg, digits) ==
    /\ ~transfer_choice(cfg, digits).raised
    /\ transfer_choice(cfg, digits).value.transferred_to # None

\* the handler where it awaits nothing: reading the settings raises, or the
\* else branch presents the menu again (counted up to MaxReplays)
handle_transfer(sid, digits) ==
    /\ "/voice/transfer" \in line[sid].webhooks
    /\ ~AwaitsTransferredTo(settings, digits)
    /\ LET choice == transfer_choice(settings, digits) IN
        IF choice.raised
        THEN /\ Respond(sid, fallback_handler)
             /\ UNCHANGED menu_replays
        ELSE /\ menu_replays[sid] < MaxReplays
             /\ Respond(sid, choice.value.response)
             /\ menu_replays' = [menu_replays EXCEPT ![sid] = @ + 1]
    /\ flow' = [flow EXCEPT ![sid] = Advance(@, "digit")]
    /\ UNCHANGED <<conversations, db, settings, updates, now, reqs, drain, writes, overlaps,
                   arg, result>>

\* digit 1 or 2 with its number configured: the response is built, up to
\* "await update_call_transferred_to(CallSid, department)"
handle_transfer_begin(h, sid, digits) ==
    /\ Free(h)
    /\ Post(sid, "/voice/transfer")
    /\ AwaitsTransferredTo(settings, digits)
    /\ LET choice == transfer_choice(settings, digits).value IN
        reqs' = [reqs EXCEPT ![h] =
                    [Suspended("transfer", sid, "update_call_transferred_to") EXCEPT
                        !.department = choice.transferred_to,
                        !.response = choice.response]]
    /\ flow' = [flow EXCEPT ![sid] = Advance(@, "digit")]
    /\ UNCHANGED <<conversations, db, settings, updates, now, last_response, drain, writes,
                   menu_replays, overlaps, arg, result>>

\* the UPDATE takes effect, and the response
handle_transfer_resume(h) ==
    /\ InFlight(h, "transfer", "update_call_transferred_to")
    /\ db' = update_call_transferred_to(db, reqs[h].sid, reqs[h].department)
    /\ Respond(reqs[h].sid, reqs[h].response)
    /\ reqs' = [reqs EXCEPT ![h] = IdleReq]
    /\ UNCHANGED <<conversations, settings, updates, now, drain, writes, menu_replays, overlaps, flow,
                   arg, result>>

----------------------------------------------------------------------------
(* PUT /api/config *)

\* the body of the request as ConfigUpdate keeps it: a field is None or the
\* value to set; the model declares no support_phone_number and drops one sent
ConfigUpdate(business_hours_start, business_hours_end, business_timezone, sales_phone_number) ==
    [business_hours_start |-> business_hours_start,
     business_hours_end |-> business_hours_end,
     business_timezone |-> business_timezone,
     sales_phone_number |-> sales_phone_number]

\* updates of one field
ConfigUpdates ==
    {ConfigUpdate(None, None, None, sales) : sales \in {"", SALES_NUMBER}}
    \cup {ConfigUpdate("17:00", None, None, None)}

\* a field that is not None is assigned, in the order of the handler
Assigned(old, new) == IF new # None THEN new ELSE old

\* the four assignments take effect one by one and the handler awaits
\* nothing; the read of update.support_phone_number after them raises
\* AttributeError, so settings.support_phone_number is never assigned and the
\* request ends with the assignments made
update_config(update) ==
    /\ updates < MaxUpdates
    /\ updates' = updates + 1
    /\ settings' =
          [settings EXCEPT
              !.business_hours_start = Assigned(@, update.business_hours_start),
              !.business_hours_end = Assigned(@, update.business_hours_end),
              !.business_timezone = Assigned(@, update.business_timezone),
              !.sales_phone_number = Assigned(@, update.sales_phone_number)]
    /\ settings' # settings
    /\ flow' = [s \in CallSids |-> Advance(flow[s], "update_config")]
    /\ UNCHANGED <<conversations, db, now, reqs, last_response, drain, writes,
                   menu_replays, overlaps, line, arg, result>>

----------------------------------------------------------------------------
(* The reaper and the clock *)

\* the oldest age threshold a sweep is run with
MaxAge == 0

\* close_stale_calls reads the clock for the cutoff and for ended_at, up to
\* "await _pool.execute(...)"
reaper_begin(h, max_age_minutes) ==
    /\ Free(h)
    /\ reqs' = [reqs EXCEPT ![h] =
                   [Suspended("sweep", "", "execute") EXCEPT
                       !.clock = At(now), !.max_age_minutes = max_age_minutes]]
    /\ UNCHANGED <<conversations, db, settings, updates, now, last_response, drain, writes,
                   menu_replays, overlaps, flow, line, arg, result>>

\* the UPDATE takes effect with the cutoff and the ended_at read before it
reaper(h) ==
    /\ InFlight(h, "sweep", "execute")
    /\ LET max_age_minutes == reqs[h].max_age_minutes
           t == reqs[h].clock[1]
       IN /\ db' = close_stale_calls(db, max_age_minutes, t).rows
          /\ flow' = [s \in CallSids |->
                         IF s \in StaleCalls(db, max_age_minutes, t)
                         THEN Advance(flow[s], "reaper") ELSE flow[s]]
    /\ reqs' = [reqs EXCEPT ![h] = IdleReq]
    /\ UNCHANGED <<conversations, settings, updates, now, last_response, drain, writes,
                   menu_replays, overlaps, line, arg, result>>

Tick ==
    /\ now < MaxTime
    /\ now' = now + 1
    /\ UNCHANGED <<conversations, db, settings, updates, reqs, last_response, drain, writes,
                   menu_replays, overlaps, flow, line, arg, result>>

----------------------------------------------------------------------------
Next ==
    \/ \E h \in Slots, sid \in CallSids : handle_incoming_call_begin(h, sid)
    \/ \E h \in Slots : handle_incoming_call_resume(h)
    \/ \E h \in Slots, sid \in CallSids, speech \in SpeechResults :
           handle_response_begin(h, sid, speech)
    \/ \E h \in Slots : handle_response_reply(h)
    \/ \E h \in Slots : handle_response_transcript(h)
    \/ \E h \in Slots : handle_response_status(h)
    \/ \E sid \in CallSids, status \in ProviderStatuses :
           handle_status_callback_other(sid, status)
    \/ \E h \in Slots, sid \in CallSids, status \in ProviderStatuses :
           handle_status_callback_begin(h, sid, status)
    \/ \E h \in Slots : handle_status_callback_transcript(h)
    \/ \E h \in Slots : handle_status_callback_status(h)
    \/ \E h \in Slots, sid \in CallSids, url \in RecordingUrls :
           handle_voicemail_begin(h, sid, url)
    \/ \E h \in Slots : handle_voicemail(h)
    \/ \E sid \in CallSids, digits \in Digits : handle_transfer(sid, digits)
    \/ \E h \in Slots, sid \in CallSids, digits \in Digits :
           handle_transfer_begin(h, sid, digits)
    \/ \E h \in Slots : handle_transfer_resume(h)
    \/ \E update \in ConfigUpdates : update_config(update)
    \/ \E h \in Slots, age \in 0..MaxAge : reaper_begin(h, age)
    \/ \E h \in Slots : reaper(h)
    \/ Tick

Spec == Init /\ [][Next]_vars

----------------------------------------------------------------------------
(* Progress.  The event loop resumes every suspended handler, and the clock  *)
(* goes on.  The provider posts a webhook or not as the caller behaves.      *)
(* close_stale_calls has no caller under src/ and main.py's lifespan starts  *)
(* no timer: a sweep is a step something outside the process may take, and   *)
(* nothing in the process schedules it.                                      *)

Fairness ==
    /\ \A h \in Slots : WF_vars(handle_incoming_call_resume(h))
    /\ \A h \in Slots : WF_vars(handle_response_reply(h))
    /\ \A h \in Slots : WF_vars(handle_response_transcript(h))
    /\ \A h \in Slots : WF_vars(handle_response_status(h))
    /\ \A h \in Slots : WF_vars(handle_status_callback_transcript(h))
    /\ \A h \in Slots : WF_vars(handle_status_callback_status(h))
    /\ \A h \in Slots : WF_vars(handle_voicemail(h))
    /\ \A h \in Slots : WF_vars(handle_transfer_resume(h))
    /\ \A h \in Slots : WF_vars(reaper(h))
    /\ WF_vars(Tick)

SpecLive == Init /\ [][Next]_vars /\ Fairness

----------------------------------------------------------------------------
(* Speech steps that overlap.  The route takes every POST it is sent: a      *)
(* second /voice/respond for a call can arrive while the first is suspended  *)
(* in get_ai_response.                                                       *)

OverlapSpeech == {<<"Hello?">>}

handle_response_overlap(h, sid, SpeechResult) ==
    /\ Free(h)
    /\ \E g \in Slots : InFlight(g, "respond", "get_ai_response") /\ reqs[g].sid = sid
    /\ overlaps[sid] < MaxOverlaps
    /\ overlaps' = [overlaps EXCEPT ![sid] = @ + 1]
    /\ Len(get_history(conversations, sid)) < MaxTurns
    /\ conversations' = add_turn(conversations, sid, "caller", SpeechResult)
    /\ reqs' = [reqs EXCEPT ![h] =
                   [Suspended("respond", sid, "get_ai_response") EXCEPT
                       !.messages = get_openai_messages(conversations', sid)]]
    /\ flow' = [flow EXCEPT ![sid] = Advance(@, "overlap")]
    /\ UNCHANGED <<db, settings, updates, now, last_response, drain, writes, menu_replays, line,
                   arg, result>>

InitOverlap ==
    /\ conversations = <<>>
    /\ db = PreviousCalls
    /\ \E sales \in SalesNumbers, support \in SupportNumbers :
           settings = Settings(sales, support)
    /\ now = 0
    /\ updates = 0
    /\ reqs = [h \in Slots |-> IdleReq]
    /\ last_response = [sid |-> "", response |-> NoResponse]
    /\ drain = [s \in CallSids |-> NoDrain]
    /\ writes = [s \in CallSids |-> 0]
    /\ menu_replays = [s \in CallSids |-> 0]
    /\ overlaps = [s \in CallSids |-> 0]
    /\ flow = [s \in CallSids |-> NewFlow]
    /\ line = [s \in CallSids |-> NewLine]
    /\ arg = <<>>
    /\ result = <<>>

NextOverlap ==
    \/ \E h \in Slots, sid \in CallSids : handle_incoming_call_begin(h, sid)
    \/ \E h \in Slots : handle_incoming_call_resume(h)
    \/ \E h \in Slots, sid \in CallSids, speech \in SpeechResults :
           handle_response_begin(h, sid, speech)
    \/ \E h \in Slots, sid \in CallSids, speech \in OverlapSpeech :
           handle_response_overlap(h, sid, speech)
    \/ \E h \in Slots : handle_response_reply(h)
    \/ \E h \in Slots : handle_response_transcript(h)
    \/ \E h \in Slots : handle_response_status(h)

SpecOverlap == InitOverlap /\ [][NextOverlap]_vars

----------------------------------------------------------------------------
(* The handlers when the table cannot be reached: a database statement       *)
(* raises instead of taking effect, the exception leaves the handler, and    *)
(* the application's exception handler answers the request.                  *)

\* the statements the voice handlers await
Statements ==
    {"save_call", "update_call_transcript", "update_call_status",
     "update_call_voicemail", "update_call_transferred_to"}

\* the statement a suspended handler awaits raises: save_call in
\* handle_incoming_call (which ends before start_call), update_call_transcript
\* or update_call_status in handle_response or handle_status_callback,
\* update_call_voicemail, update_call_transferred_to
statement_raises(h) ==
    /\ reqs[h].kind \in {"incoming", "respond", "status", "voicemail", "transfer"}
    /\ reqs[h].pc \in Statements
    /\ Respond(reqs[h].sid, fallback_handler)
    /\ reqs' = [reqs EXCEPT ![h] = IdleReq]
    /\ flow' = [flow EXCEPT ![reqs[h].sid] = Advance(@, "raised")]
    /\ UNCHANGED <<conversations, db, settings, updates, now, drain, writes, menu_replays, overlaps,
                   arg, result>>

NextFaults ==
    \/ Next
    \/ \E h \in Slots : statement_raises(h)

SpecFaults == Init /\ [][NextFaults]_vars

----------------------------------------------------------------------------
(* The gateway on its own: get_ai_response applied to one provider outcome *)

MaxTextLen == 3

GatewayTokens == {WS, TRANSFER_SALES_PREFIX, TRANSFER_SUPPORT_PREFIX, "Sure thing!"}

Texts(tokens, n) == UNION {[1..k -> tokens] : k \in 0..n}

GatewayOutcomes ==
    {Reply(t) : t \in Texts(GatewayTokens, MaxTextLen)}
        \cup {NoContent, TimedOut, ProviderError}

InitGateway ==
    /\ conversations = <<>>
    /\ db = <<>>
    /\ settings = Settings(PLACEHOLDER_NUMBER, ABSENT)
    /\ now = 0
    /\ updates = 0
    /\ reqs = [h \in Slots |-> IdleReq]
    /\ last_response = [sid |-> "", response |-> NoResponse]
    /\ drain = [s \in CallSids |-> NoDrain]
    /\ writes = [s \in CallSids |-> 0]
    /\ menu_replays = [s \in CallSids |-> 0]
    /\ overlaps = [s \in CallSids |-> 0]
    /\ flow = [s \in CallSids |-> NewFlow]
    /\ line = [s \in CallSids |-> NewLine]
    /\ arg \in GatewayOutcomes
    /\ result = <<>>

CallGateway ==
    /\ result = <<>>
    /\ result' = <<get_ai_response(arg)>>
    /\ UNCHANGED <<conversations, db, settings, updates, now, reqs, last_response, drain, writes,
                   menu_replays, overlaps, flow, line, arg>>

SpecGateway == InitGateway /\ [][CallGateway]_vars

----------------------------------------------------------------------------
(* The functions on their own: one of them applied to one input.  The rest   *)
(* of the program stands still.                                              *)

InitFunction(inputs) ==
    /\ conversations = <<>>
    /\ db = <<>>
    /\ settings = Settings(PLACEHOLDER_NUMBER, ABSENT)
    /\ now = 0
    /\ updates = 0
    /\ reqs = [h \in Slots |-> IdleReq]
    /\ last_response = [sid |-> "", response |-> NoResponse]
    /\ drain = [s \in CallSids |-> NoDrain]
    /\ writes = [s \in CallSids |-> 0]
    /\ menu_replays = [s \in CallSids |-> 0]
    /\ overlaps = [s \in CallSids |-> 0]
    /\ flow = [s \in CallSids |-> NewFlow]
    /\ line = [s \in CallSids |-> NewLine]
    /\ arg \in inputs
    /\ result = <<>>

Returns(value) ==
    /\ result = <<>>
    /\ result' = <<value>>
    /\ UNCHANGED <<conversations, db, settings, updates, now, reqs, last_response, drain, writes,
                   menu_replays, overlaps, flow, line, arg>>

(* is_business_hours *)

\* the windows configured and the local times the check is made at
WindowBounds == {"08:30", "09:00", "17:00", "17:30"}
Weekdays == {0, 1, 4, 5, 6}
Hours == {8, 9, 12, 17}
Minutes == {0, 1, 29, 30, 31, 59}
Seconds == {0, 59}
Microseconds == {0, 1, 500000}

HoursInputs ==
    {[cfg |-> [Settings(PLACEHOLDER_NUMBER, ABSENT) EXCEPT
                  !.business_hours_start = w[1], !.business_hours_end = w[2]],
      t |-> LocalTime(d, h, m, sec, us)] :
        w \in WindowBounds \X WindowBounds, d \in Weekdays, h \in Hours,
        m \in Minutes, sec \in Seconds, us \in Microseconds}

CallHours == Returns(is_business_hours(arg.cfg, arg.t))

SpecHours == InitFunction(HoursInputs) /\ [][CallHours]_vars

(* detect_transfer and strip_transfer_prefix *)

ReplyTokens ==
    {TRANSFER_SALES_PREFIX, TRANSFER_SUPPORT_PREFIX, WS, NL, "connect you with",
     "let me transfer", "Let me transfer", "transfer you", "sales", "support", "hello"}

ReplyTexts == Texts(ReplyTokens, MaxTextLen)

CallDetect == Returns(detect_transfer(arg))

SpecDetect == InitFunction(ReplyTexts) /\ [][CallDetect]_vars

CallStrip == Returns(strip_transfer_prefix(arg))

SpecStrip == InitFunction(ReplyTexts) /\ [][CallStrip]_vars

(* close_stale_calls: one sweep over a table of two calls, in minutes *)

SweepSids == {"CA1", "CA2"}
SweepTime == 20
StartTimes == {0, 5, 10, 20}
Thresholds == {0, 10, 15}

OldRows == {OldRow(st, t) : st \in {ACTIVE, COMPLETED, VOICEMAIL, TRANSFERRED},
                            t \in StartTimes}

Tables == UNION {[sids -> OldRows] : sids \in SUBSET SweepSids}

Stores == {start_call(<<>>, "CA1"), add_turn(<<>>, "CA2", "assistant", GREETING)}

InitSweep ==
    /\ conversations \in Stores
    /\ db \in Tables
    /\ settings = Settings(PLACEHOLDER_NUMBER, ABSENT)
    /\ now = SweepTime
    /\ updates = 0
    /\ reqs = [h \in Slots |-> IdleReq]
    /\ last_response = [sid |-> "", response |-> NoResponse]
    /\ drain = [s \in CallSids |-> NoDrain]
    /\ writes = [s \in CallSids |-> 0]
    /\ menu_replays = [s \in CallSids |-> 0]
    /\ overlaps = [s \in CallSids |-> 0]
    /\ flow = [s \in CallSids |-> NewFlow]
    /\ line = [s \in CallSids |-> NewLine]
    /\ arg \in Thresholds
    /\ result = <<>>

CallSweep ==
    /\ result = <<>>
    /\ db' = close_stale_calls(db, arg, now).rows
    /\ result' = <<close_stale_calls(db, arg, now).count>>
    /\ UNCHANGED <<conversations, settings, updates, now, reqs, last_response, drain, writes,
                   menu_replays, overlaps, flow, line, arg>>

SpecSweep == InitSweep /\ [][CallSweep]_vars

(* handle_transfer: one digit event posted for a call that has a row *)

DigitRows ==
    {[OldRow(st, 0) EXCEPT !.transferred_to = dept,
                           !.transcript = <<Turn("assistant", GREETING)>>] :
        st \in {ACTIVE, COMPLETED, VOICEMAIL, TRANSFERRED},
        dept \in {None, "sales", "support"}}

InitDigit ==
    /\ conversations = <<>>
    /\ \E row \in DigitRows :
           db = [s \in {"CA0", "CA1"} |-> IF s = "CA1" THEN row ELSE PreviousCalls["CA0"]]
    /\ \E sales \in SalesNumbers, support \in SupportNumbers :
           settings = Settings(sales, support)
    /\ now = 0
    /\ updates = 0
    /\ reqs = [h \in Slots |-> IdleReq]
    /\ last_response = [sid |-> "", response |-> NoResponse]
    /\ drain = [s \in CallSids |-> NoDrain]
    /\ writes = [s \in CallSids |-> 0]
    /\ menu_replays = [s \in CallSids |-> 0]
    /\ overlaps = [s \in CallSids |-> 0]
    /\ flow = [s \in CallSids |-> NewFlow]
    /\ line = [s \in CallSids |->
                  [webhooks |-> {"/voice/transfer"}, begun |-> TRUE, ended |-> FALSE]]
    /\ arg \in Digits
    /\ result = <<>>

NextDigit ==
    \/ \E sid \in CallSids : handle_transfer(sid, arg)
    \/ \E h \in Slots, sid \in CallSids : handle_transfer_begin(h, sid, arg)
    \/ \E h \in Slots : handle_transfer_resume(h)

SpecDigit == InitDigit /\ [][NextDigit]_vars

----------------------------------------------------------------------------
(* Properties *)

FinalStatuses == {COMPLETED, TRANSFERRED, VOICEMAIL}

\* the step in which the handler in slot h, suspended at pc, goes on
Resumes(h, kind, pc) == InFlight(h, kind, pc) /\ reqs'[h] # reqs[h]

\* C1: of the end_call invocations for one call id, in any interleaving of the
\* handlers, at most one returns a non-empty transcript; when the entry held
\* turns before the first invocation, that one returns them all and every
\* later one returns the empty list.
C1_AtMostOnceDrain ==
    \A c \in CallSids :
        /\ drain[c].nonempty <= 1
        /\ (drain[c].n >= 1 /\ ~drain[c].first_empty)
              => drain[c].first_whole /\ drain[c].later_empty

\* C2: the status callback's update_call_status leaves the status of a record
\* that is Transferred or Voicemail as it is.
C2_NoDowngrade ==
    [][\A c \in DOMAIN db :
          (/\ db[c].status \in {TRANSFERRED, VOICEMAIL}
           /\ \E h \in Slots : Resumes(h, "status", "update_call_status")
                                  /\ reqs[h].sid = c)
          => db'[c].status = db[c].status]_vars

\* C3: over one call, a non-empty transcript is written to the durable record
\* no more than once.
C3_TranscriptWrittenOnce ==
    \A c \in CallSids : writes[c] <= 1

\* C4: a record with a terminal status keeps it in every step that is not an
\* incoming-call event: a speech step, a voicemail event, a status event, a sweep.
C4_TerminalStatusStays ==
    [][\A c \in DOMAIN db :
          (/\ db[c].status \in FinalStatuses
           /\ ~ \E h \in Slots : Resumes(h, "incoming", "save_call"))
          => db'[c].status = db[c].status]_vars

\* C5: a record has an end timestamp exactly when its status is Completed,
\* Voicemail or Transferred.
C5_EndedIffTerminal ==
    \A c \in DOMAIN db :
        (db[c].ended_at # NoTime) <=> (db[c].status \in FinalStatuses)

\* C6: the store holds an entry for a call only while the call's record is Active.
C6_EntryOnlyWhileActive ==
    \A c \in get_active_call_sids(conversations) :
        c \in DOMAIN db /\ db[c].status = ACTIVE

\* C7: after a business-hours incoming call and a first speech step whose reply
\* starts with the sales marker, the durable transcript is the greeting, the
\* caller's words and the reply without the marker, the status is Transferred
\* and the store has no entry for the call.
C7_SalesTransfer ==
    \A c \in CallSids :
        (flow[c].stage = "transferred" /\ flow[c].content = SalesReply)
        => /\ c \in DOMAIN db
           /\ db[c].transcript = <<Turn("assistant", GREETING),
                                   Turn("caller", <<"I want pricing info">>),
                                   Turn("assistant", <<"Sure thing!">>)>>
           /\ db[c].status = TRANSFERRED
           /\ c \notin get_active_call_sids(conversations)

\* the sales transfer has run to its end
C7_Witness ==
    \E c \in CallSids : flow[c].stage = "transferred" /\ flow[c].content = SalesReply

\* C8: after an incoming call outside business hours the response is the closed
\* message and a Record, and the call is not among the store's active ids, up
\* to and past the voicemail event.
C8_AfterHoursNoEntry ==
    \A c \in CallSids :
        /\ (flow[c].stage = "closed" /\ last_response.sid = c)
           => /\ last_response.response.status = 200
              /\ SubSeq(last_response.response.body, 1, 2) =
                     <<Say(get_closed_message(settings)), Record>>
        /\ flow[c].stage \in {"closed", "closed_voicemail"}
           => c \notin get_active_call_sids(conversations)

\* C9: handle_transfer presents the digit menu again at most once per call.
C9_MenuReplayedOnce ==
    \A c \in CallSids : menu_replays[c] <= 1

\* C10: get_ai_response returns a text whatever the provider call ends in: the
\* timeout fallback after a timeout, the technical-issue fallback after any
\* other failure.
C10_GatewayNeverRaises ==
    result # <<>> =>
        /\ ~result[1].raised
        /\ result[1].value \in Seq(GatewayTokens \cup {TIMEOUT_FALLBACK[i] : i \in 1..Len(TIMEOUT_FALLBACK)}
                                       \cup {ERROR_FALLBACK[i] : i \in 1..Len(ERROR_FALLBACK)})
        /\ arg.kind = "timeout" =>
              /\ result[1].value = TIMEOUT_FALLBACK
              /\ result[1].value[1] = "I apologize, but I'm having a little trouble right now."
        /\ arg.kind \in {"error", "reply_none"} => result[1].value = ERROR_FALLBACK

\* the gateway has returned after a timeout
C10_Witness ==
    result # <<>> /\ arg.kind = "timeout"

\* C14: on Monday to Friday is_business_hours is true exactly when the local
\* hour:minute lies between the window's start and end, whatever the seconds
\* and microseconds; on Saturday and Sunday it is false.
C14_MinuteGranularity ==
    result # <<>> =>
        LET start == ParseHHMM(arg.cfg.business_hours_start)
            end == ParseHHMM(arg.cfg.business_hours_end)
            minute_of_day == arg.t.hour * 60 + arg.t.minute
        IN result[1] = (/\ arg.t.weekday \in 0..4
                        /\ start.hour * 60 + start.minute <= minute_of_day
                        /\ minute_of_day <= end.hour * 60 + end.minute)

HasMarkerPrefix(text) ==
    startswith(text, TRANSFER_SALES_PREFIX) \/ startswith(text, TRANSFER_SUPPORT_PREFIX)

\* C15: detect_transfer returns none, sales or support: the department of the
\* marker a text starts with; without a marker, support if the support pattern
\* matches, else sales if the sales pattern matches, else none.
C15_DetectPrecedence ==
    result # <<>> =>
        /\ result[1] \in {None, "sales", "support"}
        /\ startswith(arg, TRANSFER_SALES_PREFIX) => result[1] = "sales"
        /\ startswith(arg, TRANSFER_SUPPORT_PREFIX) => result[1] = "support"
        /\ (~HasMarkerPrefix(arg) /\ SUPPORT_KEYWORDS(arg)) => result[1] = "support"
        /\ (~HasMarkerPrefix(arg) /\ ~SUPPORT_KEYWORDS(arg) /\ SALES_KEYWORDS(arg))
               => result[1] = "sales"
        /\ (~HasMarkerPrefix(arg) /\ ~SUPPORT_KEYWORDS(arg) /\ ~SALES_KEYWORDS(arg))
               => result[1] = None

\* a text without a marker that matches both patterns has been classified
C15_Witness ==
    /\ result # <<>>
    /\ ~HasMarkerPrefix(arg)
    /\ SUPPORT_KEYWORDS(arg)
    /\ SALES_KEYWORDS(arg)

\* C16: strip_transfer_prefix applied to its own result returns that result,
\* and the result of one application starts with no marker.
C16_StripIdempotent ==
    result # <<>> =>
        /\ strip_transfer_prefix(result[1]) = result[1]
        /\ ~HasMarkerPrefix(result[1])

\* the records a sweep with threshold arg is to close: Active, started more
\* than arg minutes before the sweep
DueRecords == {s \in DOMAIN db : db[s].status = ACTIVE /\ now - db[s].started_at > arg}

\* C12: a sweep sets exactly the Active records older than the threshold to
\* Completed with the sweep time as end timestamp, returns their number, and
\* leaves the other records and the conversation store as they were.
C12_SweepClosesStale ==
    [][(result = <<>> /\ result' # <<>>) =>
          /\ DOMAIN db' = DOMAIN db
          /\ \A s \in DOMAIN db :
                 db'[s] = IF s \in DueRecords
                          THEN [db[s] EXCEPT !.status = COMPLETED, !.ended_at = At(now)]
                          ELSE db[s]
          /\ result'[1] = Cardinality(DueRecords)
          /\ conversations' = conversations]_vars

\* a sweep with threshold 15 has closed a call 20 minutes old and left one 10
\* minutes old Active
C12_Witness ==
    /\ result = <<1>>
    /\ arg = 15
    /\ DOMAIN db = SweepSids
    /\ db["CA1"].status = COMPLETED /\ db["CA1"].started_at = 0 /\ db["CA1"].ended_at = At(SweepTime)
    /\ db["CA2"].status = ACTIVE /\ db["CA2"].started_at = 10

\* C17: a status event with a status other than completed, busy, no-answer,
\* failed or canceled changes neither the store nor the table and returns the
\* acknowledgment; one with any of the five drains the call's entry and sets
\* the record to Completed with the time of the event as end timestamp.
C17_StatusEventFrame ==
    [][/\ \A sid \in CallSids, st \in ProviderStatuses :
            (\/ handle_status_callback_other(sid, st)
             \/ \E h \in Slots : handle_status_callback_begin(h, sid, st))
            => IF st \in {"completed", "busy", "no-answer", "failed", "canceled"}
               THEN /\ sid \notin DOMAIN conversations'
                    /\ \E h \in Slots : /\ reqs[h].kind = "idle"
                                         /\ reqs'[h].kind = "status"
                                         /\ reqs'[h].sid = sid
                                         /\ reqs'[h].clock \in {NoTime, At(now)}
               ELSE /\ conversations' = conversations
                    /\ db' = db
                    /\ last_response' = [sid |-> sid, response |-> Acknowledgment]
       /\ \A h \in Slots :
            Resumes(h, "status", "update_call_transcript")
            => reqs'[h].clock = At(now)
       /\ \A h \in Slots :
            Resumes(h, "status", "update_call_status")
            => /\ last_response'.response = Acknowledgment
               /\ reqs[h].clock # NoTime
               /\ DOMAIN db' = DOMAIN db
               /\ \A c \in DOMAIN db :
                      db'[c] = IF c = reqs[h].sid
                               THEN [db[c] EXCEPT !.status = COMPLETED,
                                                  !.ended_at = reqs[h].clock]
                               ELSE db[c]]_vars

\* a status event that ends nothing has been acknowledged during a conversation
C17_Witness ==
    \E c \in CallSids :
        /\ last_response = [sid |-> c, response |-> Acknowledgment]
        /\ ~line[c].ended
        /\ get_history(conversations, c) # <<>>
        /\ c \in DOMAIN db /\ db[c].status = ACTIVE

\* C18: a speech step whose reply classifies as none appends the caller's words
\* and then the reply as it came to the call's entry, writes nothing to the
\* table and returns a Gather for the next speech that says the reply.
C18_PlainReplyFrame ==
    [][\A h \in Slots :
          /\ (reqs[h].kind = "idle" /\ reqs'[h].kind = "respond")
             => /\ db' = db
                /\ \E speech \in SpeechResults :
                       get_history(conversations', reqs'[h].sid) =
                           Append(get_history(conversations, reqs'[h].sid),
                                  Turn("caller", speech))
          /\ (Resumes(h, "respond", "get_ai_response") /\ reqs'[h].kind = "idle")
             => \E outcome \in ProviderOutcomes :
                   LET text == get_ai_response(outcome).value IN
                   /\ detect_transfer(text) = None
                   /\ db' = db
                   /\ get_history(conversations', reqs[h].sid) =
                          Append(get_history(conversations, reqs[h].sid),
                                 Turn("assistant", text))
                   /\ last_response'.sid = reqs[h].sid
                   /\ last_response'.response.status = 200
                   /\ last_response'.response.body[1] = GatherSpeech(text)]_vars

\* the first speech step of a call has answered with a plain reply
C18_Witness ==
    \E c \in CallSids :
        /\ flow[c].stage = "replied"
        /\ conversations[c] = <<Turn("assistant", GREETING),
                                Turn("caller", <<"I want pricing info">>),
                                Turn("assistant", PlainReply)>>
        /\ db[c].status = ACTIVE /\ db[c].transcript = <<>>

\* the step in which the voicemail event of call sid is handled
\* the voicemail event of a call: the handler starts, and goes on
VoicemailBegins(sid) ==
    \E h \in Slots : reqs[h].kind = "idle" /\ reqs'[h].kind = "voicemail"
                         /\ reqs'[h].sid = sid

VoicemailStep(sid) ==
    \E h \in Slots : Resumes(h, "voicemail", "update_call_voicemail")
                         /\ reqs[h].sid = sid

\* C19: the voicemail event sets the recording URL and the Voicemail status on
\* the call's record and changes nothing else: not the store, not the other
\* columns of the record, not another record.
C19_VoicemailFrame ==
    [][\A sid \in CallSids :
          /\ VoicemailBegins(sid) => conversations' = conversations /\ db' = db
          /\ VoicemailStep(sid)
          => /\ conversations' = conversations
             /\ DOMAIN db' = DOMAIN db
             /\ \E url \in RecordingUrls : \A c \in DOMAIN db :
                    db'[c] = IF c = sid
                             THEN [db[c] EXCEPT !.voicemail_url = url,
                                                !.status = VOICEMAIL]
                             ELSE db[c]]_vars

\* the voicemail of an after-hours call has been recorded
C19_Witness ==
    \E c \in CallSids :
        /\ flow[c].stage = "closed_voicemail"
        /\ db[c].status = VOICEMAIL
        /\ db[c].voicemail_url \in RecordingUrls
        /\ "CA0" \in DOMAIN db

\* the transfer response the configured numbers call for
TransferFor(response, cfg, department) ==
    LET sales_num == cfg.sales_phone_number
        support_num == cfg.support_phone_number
        has_sales == sales_num \notin {"", PLACEHOLDER_NUMBER}
        has_support == support_num \notin {"", ABSENT}
        body == response.body
        last == body[Len(body)]
    IN /\ Len(body) >= 2
       /\ IF has_sales /\ has_support
          THEN /\ \E i \in 1..Len(body) : body[i].verb = "Gather digit"
               /\ last = Dial(IF department = "sales" THEN sales_num ELSE support_num)
          ELSE IF has_sales \/ has_support
          THEN /\ \A i \in 1..Len(body) : body[i].verb # "Gather digit"
               /\ last = Dial(IF has_sales THEN sales_num ELSE support_num)
          ELSE /\ body[Len(body) - 1].verb = "Say"
               /\ last = Hangup

\* C20: the speech step that classifies a reply as a department returns the
\* digit menu with a dial to that department after it when both numbers are
\* configured, a dial to the one number configured, an apology and a hangup
\* when none is.
C20_TransferByNumbers ==
    [][\A h \in Slots :
          Resumes(h, "respond", "update_call_status")
          => TransferFor(last_response'.response, settings, reqs[h].department)]_vars

\* the step in which a handler raises
RaisingStep ==
    \/ \E h \in Slots : statement_raises(h)
    \/ \E h \in Slots : /\ Resumes(h, "respond", "update_call_status")
                         /\ settings.support_phone_number = ABSENT
    \/ \E sid \in CallSids, digits \in Digits :
           /\ handle_transfer(sid, digits)
           /\ settings.support_phone_number = ABSENT

\* the step that ends a webhook event: a handler returns or raises
EndingStep ==
    \/ last_response' # last_response
    \/ \E h \in Slots : reqs[h].kind \notin {"idle", "sweep"} /\ reqs'[h].kind = "idle"

\* C11: every webhook event ends with a markup response, and a handler that
\* raises ends with the markup that says the apology and hangs up.
C11_ApologyOnRaise ==
    [][/\ EndingStep => last_response'.response.status \in {200, 500}
       /\ RaisingStep =>
             /\ Len(last_response'.response.body) = 2
             /\ last_response'.response.body[1].verb = "Say"
             /\ last_response'.response.body[1].text # <<>>
             /\ last_response'.response.body[2] = Hangup]_vars

\* the table could not be reached while a drained transcript was being
\* written: the handler has ended with the apology
C11_Witness ==
    \E c \in CallSids :
        /\ last_response.sid = c
        /\ last_response.response.status = 500
        /\ settings.support_phone_number # ABSENT
        /\ drain[c].n = 1
        /\ c \in DOMAIN db
        /\ db[c].status = ACTIVE /\ db[c].transcript = <<>>
        /\ \A h \in Slots : reqs[h].kind = "idle"

\* C13: a call whose record is Active and whose terminal status event never
\* arrives does not stay Active for ever: a sweep closes it.
C13_StaleEventuallyClosed ==
    \A c \in CallSids :
        ([] ~line[c].ended)
        => ((c \in DOMAIN db /\ db[c].status = ACTIVE)
               ~> (c \in DOMAIN db /\ db[c].status # ACTIVE))

\* C21: digit 1 with a sales number configured dials sales and records sales
\* as transferred-to, digit 2 with a support number configured dials support
\* and records support; no digit event changes a status, a transcript or the
\* conversation store.
DigitReturns(sid) ==
    \/ handle_transfer(sid, arg)
    \/ \E h \in Slots : handle_transfer_resume(h) /\ reqs[h].sid = sid

DigitStep(sid) ==
    \/ DigitReturns(sid)
    \/ \E h \in Slots : handle_transfer_begin(h, sid, arg)

C21_DigitTransfer ==
    [][\A sid \in CallSids :
          /\ DigitStep(sid)
             => /\ conversations' = conversations
                /\ DOMAIN db' = DOMAIN db
                /\ \A c \in DOMAIN db :
                       /\ db'[c].status = db[c].status
                       /\ db'[c].transcript = db[c].transcript
                       /\ c # sid => db'[c] = db[c]
          /\ DigitReturns(sid)
             => /\ (arg = "1" /\ settings.sales_phone_number # "")
                   => /\ last_response'.response.status = 200
                      /\ last_response'.response.body[2] =
                             Dial(settings.sales_phone_number)
                      /\ db'[sid].transferred_to = "sales"
                /\ (arg = "2" /\ settings.support_phone_number \notin {"", ABSENT})
                   => /\ last_response'.response.status = 200
                      /\ last_response'.response.body[2] =
                             Dial(settings.support_phone_number)
                      /\ db'[sid].transferred_to = "support"]_vars

\* the text the speech step in slot h got from the gateway, as the step that
\* resumes it shows it: said in the answer, or kept for the transfer
ReplyText(h) ==
    IF reqs'[h].kind = "idle" THEN last_response'.response.body[1].text
    ELSE reqs'[h].transition_message

\* C22: a speech step that gets one of the gateway's two fallback texts
\* appends it as the assistant's turn and answers with the next Gather; it
\* drains nothing and writes nothing to the table.
C22_FallbackIsPlainReply ==
    /\ detect_transfer(TIMEOUT_FALLBACK) = None
    /\ detect_transfer(ERROR_FALLBACK) = None
    /\ [][\A h \in Slots :
            (/\ Resumes(h, "respond", "get_ai_response")
             /\ last_response'.response.status # 500
             /\ ReplyText(h) \in {TIMEOUT_FALLBACK, ERROR_FALLBACK})
            => /\ reqs'[h].kind = "idle"
               /\ db' = db
               /\ get_history(conversations', reqs[h].sid) =
                      Append(get_history(conversations, reqs[h].sid),
                             Turn("assistant", ReplyText(h)))
               /\ last_response' =
                      [sid |-> reqs[h].sid, response |-> ReplyResponse(ReplyText(h))]
               /\ drain' = drain]_vars

\* the first speech step of a call has answered with the timeout fallback
C22_Witness ==
    \E c \in CallSids :
        /\ flow[c].stage = "replied"
        /\ c \in DOMAIN conversations
        /\ Len(conversations[c]) = 3
        /\ conversations[c][3] = Turn("assistant", TIMEOUT_FALLBACK)
        /\ last_response.response = ReplyResponse(TIMEOUT_FALLBACK)
        /\ db[c].status = ACTIVE /\ db[c].transcript = <<>>

IsPrefix(short, long) ==
    Len(short) <= Len(long) /\ SubSeq(long, 1, Len(short)) = short

\* C23: while a call has its entry, a step that is not the reset of an
\* incoming event leaves the turns stored as they are or adds one turn after
\* them, also when two speech steps of the call overlap.
C23_AppendOnly ==
    [][\A c \in CallSids :
          (/\ c \in DOMAIN conversations
           /\ c \in DOMAIN conversations'
           /\ ~ \E h \in Slots : Resumes(h, "incoming", "save_call") /\ reqs[h].sid = c)
          => /\ IsPrefix(conversations[c], conversations'[c])
             /\ Len(conversations'[c]) <= Len(conversations[c]) + 1]_vars

\* two speech steps have overlapped: both callers' words came before both replies
C23_Witness ==
    \E c \in CallSids :
        /\ c \in DOMAIN conversations
        /\ Len(conversations[c]) = 5
        /\ conversations[c][2] = Turn("caller", <<"I want pricing info">>)
        /\ conversations[c][3] = Turn("caller", <<"Hello?">>)
        /\ conversations[c][4].role = "assistant"
        /\ conversations[c][5].role = "assistant"

\* C24: every incoming event, a repeat for the same call included, leaves the
\* row of the call as a fresh Active record that starts at the time the event
\* came with an empty transcript, and the entry of the call as exactly the
\* greeting in business hours (and empty outside them), whatever it held.
C24_IncomingResets ==
    [][\A h \in Slots :
          /\ (reqs[h].kind = "idle" /\ reqs'[h].kind = "incoming")
             => reqs'[h].clock = At(now)
          /\ Resumes(h, "incoming", "save_call")
             => /\ reqs[h].sid \in DOMAIN db'
                /\ db'[reqs[h].sid] =
                      CallRecord(FROM_NUMBER, TO_NUMBER, reqs[h].clock[1])
                /\ db'[reqs[h].sid].status = ACTIVE
                /\ db'[reqs[h].sid].transcript = <<>>
                /\ reqs[h].sid \in DOMAIN conversations'
                /\ conversations'[reqs[h].sid] =
                      IF last_response'.response = GreetingResponse
                      THEN <<Turn("assistant", GREETING)>>
                      ELSE <<>>
                /\ last_response'.response \in {GreetingResponse, ClosedResponse(settings)}]_vars

\* the redirect of the greeting has posted the incoming event again, later than
\* the first: the handler is about to replace the row and the entry the first
\* event left
C24_Witness ==
    \E h \in Slots : \E c \in CallSids :
        /\ InFlight(h, "incoming", "save_call")
        /\ reqs[h].sid = c
        /\ c \in DOMAIN conversations
        /\ conversations[c] = <<Turn("assistant", GREETING)>>
        /\ c \in DOMAIN db
        /\ db[c].status = ACTIVE
        /\ db[c].started_at < reqs[h].clock[1]

\* C25: when a speech step that was suspended in the gateway while a terminal
\* status event finalized the call writes its transcript, the transcript
\* already in the row is kept: the sequence written starts with it.
C25_LateStepKeepsTranscript ==
    [][\A h \in Slots :
          (Resumes(h, "respond", "update_call_transcript") /\ reqs[h].sid \in DOMAIN db)
          => IsPrefix(db[reqs[h].sid].transcript, db'[reqs[h].sid].transcript)]_vars

\* the numbers a response dials at once, with no menu before the Dial
DialedAtOnce(response) ==
    IF response.status # 200 \/ HasMenu(response) THEN {}
    ELSE {response.body[i].action :
             i \in {j \in 1..Len(response.body) : response.body[j].verb = "Dial"}}

DepartmentOf(cfg, number) ==
    IF number = cfg.sales_phone_number THEN "sales" ELSE "support"

\* C26: when the last response sent for a call connects the caller to a
\* department number at once, the row of the call names that department in
\* transferred_to.
C26_DialRecordsDepartment ==
    \A c \in CallSids :
        last_response.sid = c
        => \A number \in DialedAtOnce(last_response.response) :
               /\ c \in DOMAIN db
               /\ db[c].transferred_to = DepartmentOf(settings, number)

\* what a speech step says to the caller before a transfer: the replies that
\* name a department, without their marker
TransitionMessages ==
    {strip_transfer_prefix(get_ai_response(o).value) :
        o \in {p \in ProviderOutcomes :
                 /\ ~get_ai_response(p).raised
                 /\ detect_transfer(get_ai_response(p).value) # None}}

\* C27: a row whose status is Transferred has a transcript that is not empty
\* and ends with the assistant's reply of the transferring speech step,
\* without its marker.
C27_TransferredHasTranscript ==
    \A c \in DOMAIN db :
        db[c].status = TRANSFERRED
        => /\ db[c].transcript # <<>>
           /\ db[c].transcript[Len(db[c].transcript)].role = "assistant"
           /\ db[c].transcript[Len(db[c].transcript)].content \in TransitionMessages

\* C28: when the write of a drained transcript raises, in the transfer path of
\* a speech step or in a terminal status event, the turns drained are still in
\* the entry of the call or in the transcript of its row.
C28_DrainedTurnsKept ==
    [][\A h \in Slots :
          (statement_raises(h) /\ reqs[h].pc = "update_call_transcript")
          => \/ /\ reqs[h].sid \in DOMAIN conversations'
                /\ IsPrefix(reqs[h].transcript, conversations'[reqs[h].sid])
             \/ /\ reqs[h].sid \in DOMAIN db'
                /\ IsPrefix(reqs[h].transcript, db'[reqs[h].sid].transcript)]_vars

====
